---------------------------- MODULE Spec2Model ----------------------------
(***************************************************************************)
(* Model of the dependency-grapher React client: the useAnalysis hook and  *)
(* pollAnalysis (session + polling), the App component (graph / risk-file  *)
(* loading and blast-radius selection) and the GraphViewer component       *)
(* (the cytoscape engine instance kept in cyRef).                          *)
(*                                                                         *)
(* JavaScript is single threaded: every action below is one synchronous    *)
(* block (an event handler, or the continuation of an await) followed by   *)
(* the React render and the effects that render schedules.  The awaits     *)
(* (network requests, the poll interval timer) are the only suspension     *)
(* points; each outstanding one is a record in polls / graphReqs /         *)
(* riskReqs / blastReqs.                                                   *)
(*                                                                         *)
(* Nullable JavaScript values are sequences of length <= 1 (Null, Some).   *)
(***************************************************************************)
EXTENDS Naturals, Sequences, FiniteSets

\* ------------------------------------------------------------------ bounds

\* maxAttempts handed to pollAnalysis (150 in useAnalysis.analyze), scaled down
MaxAttempts == 3
\* analyze() calls in one run of the page as the user drives it (Spec)
MaxSessions == 1
\* analyze() calls in one run when they are made at any time (SpecOpen)
MaxCalls == 2
\* blast-radius requests outstanding at the same time
MaxPending == 2

\* ------------------------------------------------------------------ values

Null == <<>>
Some(x) == <<x>>
IsNull(v) == v = <<>>
Val(v) == v[1]

NoId == 0
NoError == "null"

\* err.message of a rejected request (axios); the empty message is falsy
RejectMsgs == {"Network Error", ""}

\* payloads of GET /api/analysis/{id}; aid is the id the payload was fetched for
Payloads(id) ==
  { [aid |-> id, status |-> "pending", progress |-> 0, error |-> "", summary |-> FALSE],
    [aid |-> id, status |-> "processing", progress |-> 30, error |-> "", summary |-> FALSE],
    [aid |-> id, status |-> "processing", progress |-> 70, error |-> "", summary |-> FALSE],
    [aid |-> id, status |-> "complete", progress |-> 100, error |-> "", summary |-> TRUE],
    [aid |-> id, status |-> "error", progress |-> 0, error |-> "boom", summary |-> FALSE],
    [aid |-> id, status |-> "error", progress |-> 0, error |-> "", summary |-> FALSE] }

\* graph snapshots of GET /api/analysis/{id}/graph (cytoscape format);
\* elements: the response has an elements object
GraphFull ==
  [elements |-> TRUE,
   nodes |-> << [id |-> "n1", full_path |-> "p1"],
                [id |-> "n2", full_path |-> "p2"] >>,
   edges |-> << [id |-> "e12", source |-> "n1", target |-> "n2"] >>]
GraphEmpty == [elements |-> TRUE, nodes |-> <<>>, edges |-> <<>>]
GraphNoElements == [elements |-> FALSE, nodes |-> <<>>, edges |-> <<>>]
Graphs == {GraphFull, GraphEmpty, GraphNoElements}

\* risk_files of GET /api/analysis/{id}/risk-files, in the server's ranking
RiskList ==
  << [file_path |-> "p1", risk_score |-> 87, risk_level |-> "high", blast_radius |-> 4],
     [file_path |-> "p4", risk_score |-> 10, risk_level |-> "low", blast_radius |-> 0] >>
\* a response that is not in descending order of risk and repeats an entry
RiskListUnordered ==
  << [file_path |-> "p4", risk_score |-> 10, risk_level |-> "low", blast_radius |-> 0],
     [file_path |-> "p1", risk_score |-> 87, risk_level |-> "high", blast_radius |-> 4],
     [file_path |-> "p4", risk_score |-> 10, risk_level |-> "low", blast_radius |-> 0] >>
RiskLists == {RiskList, RiskListUnordered, <<>>}

\* (variant of RiskRows: the rank shown is the array index)
RiskRowsZeroBased(files) ==
  [k \in DOMAIN files |-> [rank |-> k - 1, file |-> files[k]]]

\* the rows RiskDashboard renders: riskFiles.map((file, index) => ...), the
\* rank shown is index + 1 (k - 1 is the index of the k-th element)
RiskRows(files) ==
  [k \in DOMAIN files |-> [rank |-> (k - 1) + 1, file |-> files[k]]]

\* result of GET /api/analysis/{id}/blast-radius/{path}
BlastOf(path) ==
  CASE path = "p1" -> [file_path |-> "p1", direct_dependents |-> <<"n2">>,
                       indirect_dependents |-> <<"p4">>, total_affected |-> 4,
                       risk_score |-> 87, risk_level |-> "high"]
    [] OTHER -> [file_path |-> path, direct_dependents |-> <<>>,
                 indirect_dependents |-> <<>>, total_affected |-> 0,
                 risk_score |-> 10, risk_level |-> "low"]

DefaultLayout == "cose-bilkent"

\* zoom levels in percent: minZoom 0.1 and maxZoom 3 of the cytoscape options,
\* and the level at which the graph fits the container
MinZoomPct == 10
MaxZoomPct == 300
FitZoomPct == 100
Layouts == {"cose-bilkent", "circle", "grid", "breadthfirst"}
\* the layouts the user picks in a run
LayoutChoices == {"cose-bilkent", "grid"}

\* ---------------------------------------------------------- api client

\* values of an environment variable at build time, as character sequences;
\* the empty one stands for a variable that is not set
EnvChoices ==
  { <<>>, <<"x">>, <<"0">>, <<"6", "0", "s">>, <<"9", "0", "0", "0", "0", "0">> }

Digits == {"0", "1", "2", "3", "4", "5", "6", "7", "8", "9"}
DigitOf(ch) ==
  CASE ch = "0" -> 0 [] ch = "1" -> 1 [] ch = "2" -> 2 [] ch = "3" -> 3
    [] ch = "4" -> 4 [] ch = "5" -> 5 [] ch = "6" -> 6 [] ch = "7" -> 7
    [] ch = "8" -> 8 [] ch = "9" -> 9

\* Number.parseInt(value, 10): the number its leading digits spell, NaN
\* (Null) when it does not start with a digit
ParseInt(v) ==
  LET n == Cardinality({k \in DOMAIN v : \A j \in 1..k : v[j] \in Digits})
      val[k \in 0..n] == IF k = 0 THEN 0 ELSE val[k - 1] * 10 + DigitOf(v[k])
  IN IF n = 0 THEN Null ELSE Some(val[n])

\* parseTimeout(value, fallback)
ParseTimeout(v, fallback) == IF IsNull(ParseInt(v)) THEN fallback ELSE Val(ParseInt(v))

ApiTimeoutDefaultMs == 300000
GraphTimeoutDefaultMs == 600000
\* API_TIMEOUT_MS and GRAPH_TIMEOUT_MS for the values of their variables
ApiTimeoutMs(envApi) == ParseTimeout(envApi, ApiTimeoutDefaultMs)
GraphTimeoutMs(envGraph) == ParseTimeout(envGraph, GraphTimeoutDefaultMs)

\* the timeout of the axios instance of services/api.js
FixedTimeoutMs == 30000

\* the two api clients of the repository: the one configured by the
\* environment, and services/api.js with its fixed timeout
ApiClients == {"env", "fixed"}

\* the axios timeout a request is issued with: getGraph passes its own
\* timeout in the configured client, every other call uses the instance's
RequestTimeoutMs(client, kind, envApi, envGraph) ==
  IF client = "fixed" THEN FixedTimeoutMs
  ELSE IF kind = "graph" THEN GraphTimeoutMs(envGraph)
  ELSE ApiTimeoutMs(envApi)

\* axios: a timeout of 0 is no timeout
LongerTimeout(a, b) == b # 0 /\ (a = 0 \/ a > b)

\* ------------------------------------------------------------------ state

VARIABLES
  \* useAnalysis state
  loading, error, analysisId, status, progress,
  \* the analyze() calls made so far, each with the position of its async body
  polls,
  \* App state
  graphData, riskFiles, selectedFile, blastRadius, highlightedNodes, activeTab,
  \* outstanding getGraph / getRiskFiles / getBlastRadius requests
  graphReqs, riskReqs, blastReqs,
  \* outcome of the blast-radius fetch of the most recent selection
  latestOutcome,
  \* GraphViewer: layout state, cyRef.current, engine instances constructed
  \* and not destroyed, engine calls made by the last action
  layout, cyRef, liveCount, engineOps

hookVars == <<loading, error, analysisId, status, progress>>
appVars == <<graphData, riskFiles, selectedFile, blastRadius, highlightedNodes, activeTab>>
reqVars == <<graphReqs, riskReqs, blastReqs, latestOutcome>>
viewVars == <<layout, cyRef, liveCount, engineOps>>
vars == <<hookVars, polls, appVars, reqVars, viewVars>>


\* ------------------------------------------------------------- GraphViewer

Includes(seq, x) == \E i \in DOMAIN seq : seq[i] = x
RemoveAt(seq, i) == SubSeq(seq, 1, i - 1) \o SubSeq(seq, i + 1, Len(seq))
NodeIds(g) == {g.nodes[i].id : i \in DOMAIN g.nodes}

\* App renders <GraphViewer> only for graph data with a non-empty node list
ViewerShown(gd) == ~IsNull(gd) /\ Val(gd).elements /\ Len(Val(gd).nodes) > 0

\* cytoscape({elements, layout}): a fresh instance, no element carries a class
NewInstance(g, lay) ==
  [layout |-> lay,
   zoom |-> FitZoomPct,
   edges |-> g.edges,
   ncls |-> [n \in NodeIds(g) |-> {}],
   ecls |-> [i \in DOMAIN g.edges |-> {}]]

\* the engine seen by one action: cyRef.current, the number of instances
\* constructed and not destroyed, and the engine calls made so far
Engine == [cy |-> cyRef, live |-> liveCount, ops |-> <<>>]

\* (variant of Cleanup: destroy() is called but the ref is not cleared)
CleanupKeepsRef(eng) ==
  IF IsNull(eng.cy) THEN eng
  ELSE [cy |-> eng.cy,
        live |-> (IF eng.live > 0 THEN eng.live - 1 ELSE 0),
        ops |-> Append(eng.ops, "destroy")]

\* (variant of Cleanup: the ref is cleared but destroy() is not called)
CleanupNoDestroy(eng) == [eng EXCEPT !.cy = Null]

\* cleanup of the build effect: destroy cyRef.current and clear the ref
Cleanup(eng) ==
  IF IsNull(eng.cy) THEN eng
  ELSE [cy |-> Null, live |-> eng.live - 1, ops |-> Append(eng.ops, "destroy")]

\* (variant of BuildEffect: no guard, an instance is constructed for any data)
BuildEffectNoGuard(eng, gd, lay) ==
  [cy |-> Some(NewInstance(IF IsNull(gd) THEN GraphEmpty ELSE Val(gd), lay)),
   live |-> eng.live + 1,
   ops |-> Append(eng.ops, "construct")]

\* body of the build effect: the guards, then cytoscape(...) into cyRef.current
BuildEffect(eng, gd, lay) ==
  IF IsNull(gd) THEN eng
  ELSE IF ~Val(gd).elements THEN eng
  ELSE IF Len(Val(gd).nodes) = 0 THEN eng
  ELSE [cy |-> Some(NewInstance(Val(gd), lay)),
        live |-> eng.live + 1,
        ops |-> Append(eng.ops, "construct")]

\* (variant of NodeClasses: the nodes outside the set are not dimmed)
NodeClassesNoDim(inst, hl) ==
  [n \in DOMAIN inst.ncls |->
     IF Len(hl) > 0 /\ Includes(hl, n) THEN {"highlighted"} ELSE {}]

\* classes of the nodes after the highlight effect
NodeClasses(inst, hl) ==
  [n \in DOMAIN inst.ncls |->
     IF Len(hl) > 0
       THEN (IF Includes(hl, n) THEN {"highlighted"} ELSE {"dimmed"})
       ELSE {}]

\* classes of the edges: all dimmed, then highlighted.connectedEdges() (every
\* edge with an end among the highlighted nodes) loses dimmed, gets highlighted
EdgeClasses(inst, hl) ==
  [i \in DOMAIN inst.ecls |->
     IF Len(hl) > 0
       THEN (IF (Includes(hl, inst.edges[i].source) /\ inst.edges[i].source \in DOMAIN inst.ncls)
                \/ (Includes(hl, inst.edges[i].target) /\ inst.edges[i].target \in DOMAIN inst.ncls)
               THEN {"highlighted"} ELSE {"dimmed"})
       ELSE {}]

\* body of the highlight effect
HighlightEffect(eng, hl) ==
  IF IsNull(eng.cy) THEN eng
  ELSE [eng EXCEPT !.cy = Some([Val(eng.cy) EXCEPT !.ncls = NodeClasses(Val(eng.cy), hl),
                                                  !.ecls = EdgeClasses(Val(eng.cy), hl)]),
                   !.ops = Append(eng.ops, "classes")]

\* dependency array of the build effect: [graphData, layout, onNodeClick].
\* onNodeClick is App's handleNodeClick, a new function on every App render.
BuildDepsChanged(appRendered, graphChanged, layoutChanged) ==
  graphChanged \/ layoutChanged \/ appRendered

\* The render that follows an action, and its effects.  eng: the engine after
\* the handler's own calls; appRendered: App rendered again (some state setter
\* got a new value); hlSet: setHighlightedNodes was called (always with a new
\* array); lay: the viewer's layout state after the action.
Commit(eng, appRendered, hlSet, lay) ==
  LET was == ViewerShown(graphData)
      now == ViewerShown(graphData')
      final ==
        IF ~now THEN (IF was THEN Cleanup(eng) ELSE eng)
        ELSE IF ~was
          THEN HighlightEffect(BuildEffect(eng, graphData', DefaultLayout), highlightedNodes')
        ELSE IF BuildDepsChanged(appRendered, graphData' # graphData, lay # layout)
          THEN LET b == BuildEffect(Cleanup(eng), graphData', lay)
               IN IF hlSet THEN HighlightEffect(b, highlightedNodes') ELSE b
        ELSE IF hlSet THEN HighlightEffect(eng, highlightedNodes')
        ELSE eng
  IN /\ layout' = (IF now /\ was THEN lay ELSE DefaultLayout)
     /\ cyRef' = final.cy
     /\ liveCount' = final.live
     /\ engineOps' = final.ops

\* ------------------------------------------------------ useAnalysis / App

StatusTag(st) == IF IsNull(st) THEN "none" ELSE Val(st).status

\* (variant of AppEffect: the data is fetched as soon as a status is known)
AppEffectEarly ==
  IF /\ <<StatusTag(status'), analysisId'>> # <<StatusTag(status), analysisId>>
     /\ StatusTag(status') \in {"processing", "complete"}
     /\ analysisId' # NoId
  THEN /\ graphReqs' = Append(graphReqs, analysisId')
       /\ riskReqs' = Append(riskReqs, analysisId')
  ELSE UNCHANGED <<graphReqs, riskReqs>>

\* App's effect on [status?.status, analysisId]: when they changed and the
\* status is complete for a non-null id, loadGraphData(id) and loadRiskFiles(id)
AppEffect ==
  IF /\ <<StatusTag(status'), analysisId'>> # <<StatusTag(status), analysisId>>
     /\ StatusTag(status') = "complete"
     /\ analysisId' # NoId
  THEN /\ graphReqs' = Append(graphReqs, analysisId')
       /\ riskReqs' = Append(riskReqs, analysisId')
  ELSE UNCHANGED <<graphReqs, riskReqs>>

\* (variant of FormShown: the start form is shown whatever the session state)
FormShownAlways == TRUE

\* what the page offers: the start form, the "New Analysis" button
FormShown == ~loading /\ IsNull(status)
ResetShown == StatusTag(status) = "complete"

\* (variant of LoopGuard: off by one, one fetch fewer than the budget)
LoopGuardShort(attempts, maxAttempts) == attempts + 1 < maxAttempts

\* (variant of LoopGuard: off by one, one fetch more than the budget)
LoopGuardInclusive(attempts, maxAttempts) == attempts <= maxAttempts

\* (variant of PollOutcome: the loop does not return on a complete payload)
PollOutcomeNoReturn(p) == IF p.status = "error" THEN "throw" ELSE "continue"

\* pollAnalysis: the loop condition, and what the loop does with a payload
LoopGuard(attempts, maxAttempts) == attempts < maxAttempts
PollOutcome(p) ==
  IF p.status = "complete" THEN "return"
  ELSE IF p.status = "error" THEN "throw"
  ELSE "continue"

\* pollInterval handed to pollAnalysis by analyze, in ms
IntervalMs == 2000
\* an answered request has taken at least this long, in ms
MinLatencyMs == 1

\* time since the first status fetch of a loop was issued, at the least: the
\* interval sleeps that have been started and the fetches that have been
\* issued, when the outstanding await (a fetch or a sleep) resumes
ElapsedAtLeast(call) == call.attempts * IntervalMs + call.fetches * MinLatencyMs

\* an analyze() call that has settled: the locals of pollAnalysis are gone
Settled(call, how) ==
  [pc |-> how, id |-> call.id, attempts |-> 0, fetches |-> 0, ret |-> Null]

\* (variant of Returned: the loop returns without the payload)
ReturnedNothing(call, p) == Settled(call, "returned")

\* pollAnalysis returned payload p (return status)
Returned(call, p) == [Settled(call, "returned") EXCEPT !.ret = Some(p)]

\* (variant of OnProgress: the status is set, the progress is left alone)
OnProgressStatusOnly(p) == [status |-> Some(p), progress |-> progress]

\* (variant of OnProgress: only the status tag and the progress are handed on)
OnProgressStripped(p) ==
  [status |-> Some([p EXCEPT !.summary = FALSE]), progress |-> p.progress]

\* the onProgress callback of analyze: setStatus(statusUpdate),
\* setProgress(statusUpdate.progress || 0)
OnProgress(p) == [status |-> Some(p), progress |-> p.progress]

\* (variant of ResetSession: the progress is left as it is)
ResetSessionKeepsProgress ==
  [loading |-> FALSE, error |-> NoError, analysisId |-> NoId, status |-> Null,
   progress |-> progress]

\* useAnalysis.reset: the five values it sets
ResetSession ==
  [loading |-> FALSE, error |-> NoError, analysisId |-> NoId, status |-> Null,
   progress |-> 0]

\* (variant of OrFailed: the message is always the default one)
OrFailedAlways(msg) == "Analysis failed"

\* x || 'Analysis failed'
OrFailed(msg) == IF msg = "" THEN "Analysis failed" ELSE msg

\* (variant of CatchBlock: the error is set, loading is left as it is)
CatchBlockKeepsLoading(msg) == [error |-> OrFailed(msg), loading |-> loading]

\* the catch block of analyze: setError(err.message || 'Analysis failed'),
\* setLoading(false), before the error is rethrown
CatchBlock(msg) == [error |-> OrFailed(msg), loading |-> FALSE]

\* every pending blast-radius request now belongs to an earlier selection
Superseded(reqs) == [i \in DOMAIN reqs |-> [reqs[i] EXCEPT !.latest = FALSE]]

\* useAnalysis.analyze up to its first await (the submit request)
AnalyzeCall(cap) ==
  /\ Len(polls) < cap
  /\ loading' = TRUE
  /\ error' = NoError
  /\ progress' = 0
  /\ polls' = Append(polls, [pc |-> "submit", id |-> NoId, attempts |-> 0, fetches |-> 0,
                           ret |-> Null])
  /\ UNCHANGED <<analysisId, status>>

\* App.handleStartAnalysis: clear the App state, then analyze() up to its
\* first await
HandleStartAnalysis(gated, cap) ==
  /\ gated => FormShown
  /\ AnalyzeCall(cap)
  /\ graphData' = Null
  /\ riskFiles' = <<>>
  /\ selectedFile' = Null
  /\ blastRadius' = Null
  /\ highlightedNodes' = <<>>
  /\ blastReqs' = Superseded(blastReqs)
  /\ latestOutcome' = "none"
  /\ UNCHANGED <<activeTab, graphReqs, riskReqs>>
  /\ Commit(Engine, TRUE, TRUE, layout)

\* (variant of FirstFetch: the first status fetch is issued without the id)
FirstFetchNoId(id) ==
  [pc |-> "fetch", id |-> NoId, attempts |-> 0, fetches |-> 1, ret |-> Null]

\* pollAnalysis(result.analysis_id, ...) up to its first getAnalysis(id)
FirstFetch(id) ==
  [pc |-> "fetch", id |-> id, attempts |-> 0, fetches |-> 1, ret |-> Null]

\* startAnalysis resolved: setAnalysisId, then pollAnalysis up to its first fetch
SubmitOk(c) ==
  /\ polls[c].pc = "submit"
  /\ analysisId' = c
  /\ IF LoopGuard(0, MaxAttempts)
       THEN /\ polls' = [polls EXCEPT ![c] = FirstFetch(c)]
            /\ UNCHANGED <<loading, error>>
       ELSE /\ polls' = [polls EXCEPT ![c] = Settled([polls[c] EXCEPT !.id = c], "threw")]
            /\ error' = CatchBlock("Analysis timeout").error
            /\ loading' = CatchBlock("Analysis timeout").loading
  /\ UNCHANGED <<status, progress, appVars, blastReqs, latestOutcome>>
  /\ AppEffect
  /\ Commit(Engine, TRUE, FALSE, layout)

\* startAnalysis rejected: the catch block of analyze
SubmitFail(c, msg) ==
  /\ polls[c].pc = "submit"
  /\ error' = CatchBlock(msg).error
  /\ loading' = CatchBlock(msg).loading
  /\ polls' = [polls EXCEPT ![c] = Settled(polls[c], "threw")]
  /\ UNCHANGED <<analysisId, status, progress, appVars, reqVars>>
  /\ Commit(Engine, <<error', loading'>> # <<error, loading>>, FALSE, layout)

\* getAnalysis resolved with payload p: onProgress, then return / throw / sleep
FetchOk(c, p) ==
  /\ polls[c].pc = "fetch"
  /\ status' = OnProgress(p).status
  /\ progress' = OnProgress(p).progress
  /\ CASE PollOutcome(p) = "return" ->
            /\ loading' = FALSE
            /\ polls' = [polls EXCEPT ![c] = Returned(polls[c], p)]
            /\ UNCHANGED error
       [] PollOutcome(p) = "throw" ->
            /\ error' = CatchBlock(OrFailed(p.error)).error
            /\ loading' = CatchBlock(OrFailed(p.error)).loading
            /\ polls' = [polls EXCEPT ![c] = Settled(polls[c], "threw")]
       [] OTHER ->
            /\ polls' = [polls EXCEPT ![c].pc = "sleep", ![c].attempts = @ + 1]
            /\ UNCHANGED <<loading, error>>
  /\ UNCHANGED <<analysisId, appVars, blastReqs, latestOutcome>>
  /\ AppEffect
  /\ Commit(Engine, TRUE, FALSE, layout)

\* getAnalysis rejected: pollAnalysis rethrows, the catch block of analyze
FetchFail(c, msg) ==
  /\ polls[c].pc = "fetch"
  /\ error' = CatchBlock(msg).error
  /\ loading' = CatchBlock(msg).loading
  /\ polls' = [polls EXCEPT ![c] = Settled(polls[c], "threw")]
  /\ UNCHANGED <<analysisId, status, progress, appVars, reqVars>>
  /\ Commit(Engine, <<error', loading'>> # <<error, loading>>, FALSE, layout)

\* the interval timer fired: next fetch, or 'Analysis timeout'
SleepDone(c) ==
  /\ polls[c].pc = "sleep"
  /\ IF LoopGuard(polls[c].attempts, MaxAttempts)
       THEN /\ polls' = [polls EXCEPT ![c].pc = "fetch", ![c].fetches = @ + 1]
            /\ UNCHANGED <<loading, error>>
       ELSE /\ polls' = [polls EXCEPT ![c] = Settled(polls[c], "threw")]
            /\ error' = CatchBlock("Analysis timeout").error
            /\ loading' = CatchBlock("Analysis timeout").loading
  /\ UNCHANGED <<analysisId, status, progress, appVars, reqVars>>
  /\ Commit(Engine, <<error', loading'>> # <<error, loading>>, FALSE, layout)

\* useAnalysis.reset
ResetCall ==
  /\ loading' = ResetSession.loading
  /\ error' = ResetSession.error
  /\ analysisId' = ResetSession.analysisId
  /\ status' = ResetSession.status
  /\ progress' = ResetSession.progress
  /\ UNCHANGED polls

\* App.handleReset: reset() of the hook, then clear the App state
HandleReset(gated) ==
  /\ gated => ResetShown
  /\ ResetCall
  /\ graphData' = Null
  /\ riskFiles' = <<>>
  /\ selectedFile' = Null
  /\ blastRadius' = Null
  /\ highlightedNodes' = <<>>
  /\ blastReqs' = Superseded(blastReqs)
  /\ latestOutcome' = "none"
  /\ UNCHANGED activeTab
  /\ AppEffect
  /\ Commit(Engine, TRUE, TRUE, layout)

\* the hook's operations called on their own (analyze, reset, loadAnalysis
\* are what useAnalysis returns): nothing but the hook's state is set
Analyze ==
  /\ AnalyzeCall(MaxCalls)
  /\ UNCHANGED <<appVars, reqVars>>
  /\ Commit(Engine, TRUE, FALSE, layout)

\* (variant of Reset: reset() also clears the graph and selection data)
ResetWithAppState == HandleReset(FALSE)

Reset ==
  /\ ResetCall
  /\ UNCHANGED <<appVars, blastReqs, latestOutcome>>
  /\ AppEffect
  /\ Commit(Engine, TRUE, FALSE, layout)

\* useAnalysis.loadAnalysis(id) up to its await
LoadAnalysis(id) ==
  /\ Len(polls) < MaxCalls
  /\ loading' = TRUE
  /\ error' = NoError
  /\ polls' = Append(polls, [pc |-> "load", id |-> id, attempts |-> 0, fetches |-> 0,
                           ret |-> Null])
  /\ UNCHANGED <<analysisId, status, progress, appVars, reqVars>>
  /\ Commit(Engine, TRUE, FALSE, layout)

\* loadAnalysis: getAnalysis resolved with payload p
LoadOk(c, p) ==
  /\ polls[c].pc = "load"
  /\ analysisId' = polls[c].id
  /\ status' = Some(p)
  /\ progress' = p.progress
  /\ loading' = FALSE
  /\ polls' = [polls EXCEPT ![c] = Returned(polls[c], p)]
  /\ UNCHANGED <<error, appVars, blastReqs, latestOutcome>>
  /\ AppEffect
  /\ Commit(Engine, TRUE, FALSE, layout)

\* loadAnalysis: getAnalysis rejected, the catch block
LoadFail(c, msg) ==
  /\ polls[c].pc = "load"
  /\ error' = (IF msg = "" THEN "Failed to load analysis" ELSE msg)
  /\ loading' = FALSE
  /\ polls' = [polls EXCEPT ![c] = Settled(polls[c], "threw")]
  /\ UNCHANGED <<analysisId, status, progress, appVars, reqVars>>
  /\ Commit(Engine, TRUE, FALSE, layout)

\* (variant of LoadCatch: the failure is escalated to the session error)
LoadCatchEscalates(err) == "Failed to load"

\* the catch block of loadGraphData / loadRiskFiles: console.error only, the
\* session error is what it was
LoadCatch(err) == err

\* loadGraphData: getGraph resolved / rejected
GraphOk(i, g) ==
  /\ i \in DOMAIN graphReqs
  /\ graphData' = Some(g)
  /\ graphReqs' = RemoveAt(graphReqs, i)
  /\ UNCHANGED <<hookVars, polls, riskFiles, selectedFile, blastRadius,
                 highlightedNodes, activeTab, riskReqs, blastReqs, latestOutcome>>
  /\ Commit(Engine, TRUE, FALSE, layout)

GraphFail(i) ==
  /\ i \in DOMAIN graphReqs
  /\ graphReqs' = RemoveAt(graphReqs, i)
  /\ error' = LoadCatch(error)
  /\ UNCHANGED <<loading, analysisId, status, progress, polls, appVars, riskReqs,
                 blastReqs, latestOutcome>>
  /\ Commit(Engine, FALSE, FALSE, layout)

\* loadRiskFiles: getRiskFiles resolved (data.risk_files || []) / rejected
RiskOk(i, l) ==
  /\ i \in DOMAIN riskReqs
  /\ riskFiles' = l
  /\ riskReqs' = RemoveAt(riskReqs, i)
  /\ UNCHANGED <<hookVars, polls, graphData, selectedFile, blastRadius,
                 highlightedNodes, activeTab, graphReqs, blastReqs, latestOutcome>>
  /\ Commit(Engine, TRUE, FALSE, layout)

RiskFail(i) ==
  /\ i \in DOMAIN riskReqs
  /\ riskReqs' = RemoveAt(riskReqs, i)
  /\ error' = LoadCatch(error)
  /\ UNCHANGED <<loading, analysisId, status, progress, polls, appVars, graphReqs,
                 blastReqs, latestOutcome>>
  /\ Commit(Engine, FALSE, FALSE, layout)

\* ------------------------------------------------- blast-radius selection

\* (variant of Affected: the new ids are merged into the previous highlight)
AffectedMerged(id, blast) ==
  highlightedNodes \o <<id>> \o blast.direct_dependents \o blast.indirect_dependents

\* [node.id, ...(blast.direct_dependents || []), ...(blast.indirect_dependents || [])]
Affected(id, blast) == <<id>> \o blast.direct_dependents \o blast.indirect_dependents

\* node.data() of a graph node, as handed to onNodeClick
NodeData(n) == [id |-> n.id, full_path |-> n.full_path, risk_level |-> "undefined"]

\* fileData of handleRiskFileClick: built from the risk file, then
\* Object.assign(fileData, node.data) when the graph has a node with that path
FileData(file, gd) ==
  LET base == [id |-> file.file_path, full_path |-> file.file_path,
               risk_level |-> file.risk_level]
      found == IF IsNull(gd) \/ ~Val(gd).elements THEN {}
               ELSE {i \in DOMAIN Val(gd).nodes : Val(gd).nodes[i].full_path = file.file_path}
  IN IF found = {} THEN base
     ELSE LET n == Val(gd).nodes[CHOOSE i \in found : \A j \in found : i <= j]
          IN [base EXCEPT !.id = n.id, !.full_path = n.full_path]

\* the blast radius built from the risk file when the fetch fails
Degraded(file) ==
  [file_path |-> file.file_path, direct_dependents |-> <<>>,
   indirect_dependents |-> <<>>, total_affected |-> file.blast_radius,
   risk_score |-> file.risk_score, risk_level |-> file.risk_level]

\* the getBlastRadius request of handleNodeClick / handleRiskFileClick: what
\* the continuation of the await closes over
NodeRequest(node) ==
  [via |-> "node", aid |-> analysisId, sel |-> node, file |-> Null, latest |-> TRUE]
RiskRequest(file, fileData) ==
  [via |-> "risk", aid |-> analysisId, sel |-> fileData, file |-> Some(file),
   latest |-> TRUE]

\* what the continuation sets when the fetch resolved: blastRadius and
\* highlightedNodes
BlastResolved(r) ==
  [blast |-> Some(BlastOf(r.sel.full_path)),
   hl |-> Affected(r.sel.id, BlastOf(r.sel.full_path))]

\* (variant of BlastRejected: both handlers fall back to null)
BlastRejectedNull(r) == Null

\* what the catch block sets blastRadius to when the fetch rejected: null in
\* handleNodeClick, the result built from the risk file in handleRiskFileClick
BlastRejected(r) ==
  IF r.via = "node" THEN Null ELSE Some(Degraded(Val(r.file)))

\* App.handleNodeClick up to its await: a tap on node n of the live instance
HandleNodeClick(n) ==
  /\ ViewerShown(graphData)
  /\ ~IsNull(cyRef)
  /\ n \in DOMAIN Val(graphData).nodes
  /\ Len(blastReqs) < MaxPending
  /\ LET node == NodeData(Val(graphData).nodes[n])
     IN /\ selectedFile' = Some(node)
        /\ blastReqs' = Append(Superseded(blastReqs), NodeRequest(node))
  /\ activeTab' = "details"
  /\ latestOutcome' = "pending"
  /\ UNCHANGED <<hookVars, polls, graphData, riskFiles, blastRadius,
                 highlightedNodes, graphReqs, riskReqs>>
  /\ Commit(Engine, <<selectedFile', activeTab'>> # <<selectedFile, activeTab>>, FALSE, layout)

\* App.handleRiskFileClick up to its await: a click on entry k of the risk list
HandleRiskFileClick(k) ==
  /\ StatusTag(status) = "complete"
  /\ activeTab = "risk"
  /\ k \in DOMAIN riskFiles
  /\ LET file == riskFiles[k]
         fileData == FileData(file, graphData)
     IN /\ selectedFile' = Some(fileData)
        /\ IF analysisId # NoId
             THEN /\ Len(blastReqs) < MaxPending
                  /\ blastReqs' = Append(Superseded(blastReqs),
                                         RiskRequest(file, fileData))
                  /\ latestOutcome' = "pending"
             ELSE /\ blastReqs' = Superseded(blastReqs)
                  /\ latestOutcome' = "nofetch"
  /\ activeTab' = "details"
  /\ UNCHANGED <<hookVars, polls, graphData, riskFiles, blastRadius,
                 highlightedNodes, graphReqs, riskReqs>>
  /\ Commit(Engine, TRUE, FALSE, layout)

\* getBlastRadius resolved: setBlastRadius(blast), setHighlightedNodes(affected)
BlastOk(i) ==
  /\ i \in DOMAIN blastReqs
  /\ LET r == blastReqs[i]
     IN /\ blastRadius' = BlastResolved(r).blast
        /\ highlightedNodes' = BlastResolved(r).hl
        /\ latestOutcome' = (IF r.latest THEN "ok" ELSE latestOutcome)
  /\ blastReqs' = RemoveAt(blastReqs, i)
  /\ UNCHANGED <<hookVars, polls, graphData, riskFiles, selectedFile, activeTab,
                 graphReqs, riskReqs>>
  /\ Commit(Engine, TRUE, TRUE, layout)

\* getBlastRadius rejected: the catch block of the handler that issued it
BlastFail(i) ==
  /\ i \in DOMAIN blastReqs
  /\ LET r == blastReqs[i]
     IN /\ blastRadius' = BlastRejected(r)
        /\ latestOutcome' = (IF r.latest THEN "fail" ELSE latestOutcome)
        /\ blastReqs' = RemoveAt(blastReqs, i)
        /\ UNCHANGED <<hookVars, polls, graphData, riskFiles, selectedFile,
                       highlightedNodes, activeTab, graphReqs, riskReqs>>
        /\ Commit(Engine, r.via = "risk" \/ blastRadius' # blastRadius, FALSE, layout)

\* the sidebar tabs (rendered while the status is complete)
SetActiveTab(t) ==
  /\ StatusTag(status) = "complete"
  /\ t # activeTab
  /\ activeTab' = t
  /\ UNCHANGED <<hookVars, polls, graphData, riskFiles, selectedFile, blastRadius,
                 highlightedNodes, reqVars>>
  /\ Commit(Engine, TRUE, FALSE, layout)

\* cyRef.current.layout({name}).run() on the live instance
LayoutRun(eng, l) ==
  IF IsNull(eng.cy) THEN eng
  ELSE [eng EXCEPT !.cy = Some([Val(eng.cy) EXCEPT !.layout = l]),
                   !.ops = Append(eng.ops, "layout")]

\* GraphViewer.handleChangeLayout: setLayout, then run the layout in place
HandleChangeLayout(l) ==
  /\ ViewerShown(graphData)
  /\ l # layout
  /\ UNCHANGED <<hookVars, polls, appVars, reqVars>>
  /\ Commit(LayoutRun(Engine, l), FALSE, FALSE, l)

\* cy.zoom(level): the engine keeps the level within [minZoom, maxZoom]
Clamp(z) == IF z < MinZoomPct THEN MinZoomPct ELSE IF z > MaxZoomPct THEN MaxZoomPct ELSE z

\* (variant of ZoomBy: the view is changed by running a layout)
ZoomByLayout(eng, tenths) == LayoutRun(eng, "grid")

\* cyRef.current.zoom(cyRef.current.zoom() * factor), factor in tenths
ZoomBy(eng, tenths) ==
  IF IsNull(eng.cy) THEN eng
  ELSE [eng EXCEPT !.cy = Some([Val(eng.cy) EXCEPT
                                  !.zoom = Clamp((Val(eng.cy).zoom * tenths) \div 10)]),
                   !.ops = Append(eng.ops, "zoom")]

\* cyRef.current.fit(null, 50)
FitView(eng) ==
  IF IsNull(eng.cy) THEN eng
  ELSE [eng EXCEPT !.cy = Some([Val(eng.cy) EXCEPT !.zoom = FitZoomPct]),
                   !.ops = Append(eng.ops, "fit")]

\* cyRef.current.png({scale: 2}), then the download link is clicked
ExportView(eng) ==
  IF IsNull(eng.cy) THEN eng ELSE [eng EXCEPT !.ops = Append(eng.ops, "png")]

\* the control buttons of the viewer: no state is set, nothing renders
HandleZoomIn ==
  /\ ViewerShown(graphData)
  /\ UNCHANGED <<hookVars, polls, appVars, reqVars>>
  /\ Commit(ZoomBy(Engine, 12), FALSE, FALSE, layout)

HandleZoomOut ==
  /\ ViewerShown(graphData)
  /\ UNCHANGED <<hookVars, polls, appVars, reqVars>>
  /\ Commit(ZoomBy(Engine, 8), FALSE, FALSE, layout)

HandleFit ==
  /\ ViewerShown(graphData)
  /\ UNCHANGED <<hookVars, polls, appVars, reqVars>>
  /\ Commit(FitView(Engine), FALSE, FALSE, layout)

HandleExportPNG ==
  /\ ViewerShown(graphData)
  /\ UNCHANGED <<hookVars, polls, appVars, reqVars>>
  /\ Commit(ExportView(Engine), FALSE, FALSE, layout)

\* ------------------------------------------------------- specifications

Init ==
  /\ loading = FALSE
  /\ error = NoError
  /\ analysisId = NoId
  /\ status = Null
  /\ progress = 0
  /\ polls = <<>>
  /\ graphData = Null
  /\ riskFiles = <<>>
  /\ selectedFile = Null
  /\ blastRadius = Null
  /\ highlightedNodes = <<>>
  /\ activeTab = "risk"
  /\ graphReqs = <<>>
  /\ riskReqs = <<>>
  /\ blastReqs = <<>>
  /\ latestOutcome = "none"
  /\ layout = DefaultLayout
  /\ cyRef = Null
  /\ liveCount = 0
  /\ engineOps = <<>>

\* the continuations of the awaits of analyze() / pollAnalysis
PollStep ==
  \/ \E c \in DOMAIN polls : SubmitOk(c)
  \/ \E c \in DOMAIN polls : \E msg \in RejectMsgs : SubmitFail(c, msg)
  \/ \E c \in DOMAIN polls : \E p \in Payloads(polls[c].id) : FetchOk(c, p)
  \/ \E c \in DOMAIN polls : \E msg \in RejectMsgs : FetchFail(c, msg)
  \/ \E c \in DOMAIN polls : SleepDone(c)

\* the continuations of the outstanding awaits
Resolve ==
  \/ PollStep
  \/ \E i \in DOMAIN graphReqs : \E g \in Graphs : GraphOk(i, g)
  \/ \E i \in DOMAIN graphReqs : GraphFail(i)
  \/ \E i \in DOMAIN riskReqs : \E l \in RiskLists : RiskOk(i, l)
  \/ \E i \in DOMAIN riskReqs : RiskFail(i)

\* the page as the user drives it: a handler runs only when its control is shown
Next ==
  \/ HandleStartAnalysis(TRUE, MaxSessions)
  \/ HandleReset(TRUE)
  \/ Resolve
  \/ \E n \in 1..2 : HandleNodeClick(n)
  \/ \E k \in 1..2 : HandleRiskFileClick(k)
  \/ \E i \in DOMAIN blastReqs : BlastOk(i)
  \/ \E i \in DOMAIN blastReqs : BlastFail(i)
  \/ \E t \in {"risk", "details"} : SetActiveTab(t)
  \/ \E l \in LayoutChoices : HandleChangeLayout(l)

Spec == Init /\ [][Next]_vars

\* the session operations called at any time (analyze() and reset() are
\* callable whatever the page shows), without selections
NextOpen ==
  \/ HandleStartAnalysis(FALSE, MaxCalls)
  \/ HandleReset(FALSE)
  \/ Resolve

SpecOpen == Init /\ [][NextOpen]_vars

\* the life cycle of the viewer: the session operations at any time (so that
\* graph data arrives, is replaced while the viewer is mounted, and is
\* cleared), App re-renders and layout switches
NextView ==
  \/ HandleStartAnalysis(FALSE, MaxCalls)
  \/ HandleReset(FALSE)
  \/ Resolve
  \/ \E t \in {"risk", "details"} : SetActiveTab(t)
  \/ \E l \in LayoutChoices : HandleChangeLayout(l)

SpecView == Init /\ [][NextView]_vars

\* the session part of the page as the user drives it, over several sessions:
\* the form and the "New Analysis" button are used when they are shown
NextPage ==
  \/ HandleStartAnalysis(TRUE, MaxCalls)
  \/ HandleReset(TRUE)
  \/ Resolve

SpecPage == Init /\ [][NextPage]_vars

\* one session of the page with the control buttons of the viewer
NextControls ==
  \/ HandleStartAnalysis(TRUE, MaxSessions)
  \/ HandleReset(TRUE)
  \/ Resolve
  \/ HandleZoomIn
  \/ HandleZoomOut
  \/ HandleFit
  \/ HandleExportPNG
  \/ \E l \in LayoutChoices : HandleChangeLayout(l)

SpecControls == Init /\ [][NextControls]_vars

\* the continuations of the await of loadAnalysis
LoadStep ==
  \/ \E c \in DOMAIN polls : \E p \in Payloads(polls[c].id) : LoadOk(c, p)
  \/ \E c \in DOMAIN polls : \E msg \in RejectMsgs : LoadFail(c, msg)

\* the hook used on its own: analyze, loadAnalysis and reset called at any
\* time, App reacting only through its load-on-complete effect
NextHook ==
  \/ Analyze
  \/ Reset
  \/ \E id \in 1..MaxCalls : LoadAnalysis(id)
  \/ LoadStep
  \/ Resolve

SpecHook == Init /\ [][NextHook]_vars

\* Spec when every outstanding request of pollAnalysis is answered (resolved
\* or rejected: axios requests carry a timeout) and every interval timer fires
SpecFair == Spec /\ WF_vars(PollStep)

\* ------------------------------------------------------------------ claims

SeqSet(seq) == {seq[i] : i \in DOMAIN seq}
Count(seq, x) == Cardinality({i \in DOMAIN seq : seq[i] = x})
Polling(c) == c \in DOMAIN polls /\ polls[c].pc \in {"fetch", "sleep"}
HasSettled(c) == c \in DOMAIN polls /\ polls[c].pc \in {"returned", "threw"}

\* the idle session: what reset() leaves
Idle ==
  /\ ~loading
  /\ error = NoError
  /\ analysisId = NoId
  /\ IsNull(status)
  /\ progress = 0

\* C1: when the session is idle while a poll loop still has a status fetch or
\* an interval sleep outstanding (reset() was called mid-poll), the next step
\* of that poll loop (a response, a rejection, the timer) leaves it idle.
C1_ResetStaysIdle ==
  [][\A c \in DOMAIN polls :
       (Idle /\ Polling(c) /\ polls'[c] # polls[c]) => Idle']_vars

\* C2: a successful blast-radius response of an earlier selection that
\* arrives after the successful response of the latest selection is dropped:
\* it changes none of selectedFile, blastRadius, highlightedNodes.
C2_StaleResponseDropped ==
  [][\A i \in DOMAIN blastReqs :
       (BlastOk(i) /\ ~blastReqs[i].latest /\ latestOutcome = "ok")
         => UNCHANGED <<selectedFile, blastRadius, highlightedNodes>>]_vars

\* C3: a pollAnalysis loop never has issued more than maxAttempts status
\* fetches, and when every fetch is answered and every timer fires, a loop
\* that is polling eventually has returned or thrown.
C3_PollTerminates ==
  /\ [](\A c \in DOMAIN polls : polls[c].fetches <= MaxAttempts)
  /\ \A c \in 1..MaxSessions : Polling(c) ~> HasSettled(c)

\* C3 witness: a loop used its whole budget and threw the timeout error
C3_Witness ==
  \E c \in DOMAIN polls : polls[c].pc = "threw" /\ error = "Analysis timeout"

\* C4: a status fetch that rejects before the last attempt of the budget does
\* not end the poll loop: the loop goes on to its interval sleep.
C4_FetchFailureRetried ==
  [][\A c \in DOMAIN polls :
       ((\E msg \in RejectMsgs : FetchFail(c, msg)) /\ polls[c].attempts + 1 < MaxAttempts)
         => polls'[c].pc = "sleep"]_vars

\* C5: while the status is complete, loading is false and no poll loop is
\* still fetching or sleeping, and every step other than reset or a new
\* analyze() leaves status and progress as they are and loading false.
C5_CompleteIsTerminal ==
  /\ [](StatusTag(status) = "complete"
          => ~loading /\ ~(\E c \in DOMAIN polls : Polling(c)))
  /\ [][(StatusTag(status) = "complete" /\ ~IsNull(status') /\ Len(polls') = Len(polls))
          => (status' = status /\ progress' = progress /\ ~loading')]_vars

\* C5 witness: the complete payload has been applied and the loop has returned
C5_Witness ==
  /\ StatusTag(status) = "complete"
  /\ \E c \in DOMAIN polls : polls[c].pc = "returned"

\* C6: whenever a file is selected, highlightedNodes contains its node id.
C6_SelectedIsHighlighted ==
  ~IsNull(selectedFile) => Includes(highlightedNodes, Val(selectedFile).id)

\* C7: when the blast-radius fetch of the latest selection succeeds,
\* blastRadius becomes the fetched result for the selected file and
\* highlightedNodes holds exactly the selected id and the direct and indirect
\* dependents of that result.
C7_SuccessSetsHighlight ==
  [][\A i \in DOMAIN blastReqs :
       (BlastOk(i) /\ blastReqs[i].latest)
         => /\ ~IsNull(selectedFile)
            /\ LET f == Val(selectedFile)
                   b == BlastOf(f.full_path)
               IN /\ blastRadius' = Some(b)
                  /\ SeqSet(highlightedNodes') =
                       {f.id} \cup SeqSet(b.direct_dependents)
                              \cup SeqSet(b.indirect_dependents)]_vars

\* C7 witness: the latest selection's fetch succeeded and was applied
C7_Witness ==
  /\ latestOutcome = "ok"
  /\ ~IsNull(selectedFile)
  /\ blastRadius = Some(BlastOf(Val(selectedFile).full_path))
  /\ Len(highlightedNodes) > 1

\* engine instances alive after the first k engine calls of the last action
LiveAfter(k) ==
  (liveCount + Count(SubSeq(engineOps, k + 1, Len(engineOps)), "destroy"))
    - Count(SubSeq(engineOps, k + 1, Len(engineOps)), "construct")

\* C8: at most one engine instance is alive, also between the engine calls
\* of one action (a construct comes after the destroy of the previous
\* instance); cyRef holds the live instance; no instance is alive while the
\* viewer is not mounted.
C8_OneLiveInstance ==
  /\ \A k \in 0..Len(engineOps) : LiveAfter(k) <= 1
  /\ IsNull(cyRef) <=> liveCount = 0
  /\ ~ViewerShown(graphData) => liveCount = 0

\* C8 witness: after two completed analyses the mounted viewer was rebuilt,
\* the previous instance destroyed before the new one was constructed
C8_Witness ==
  /\ engineOps = <<"destroy", "construct">>
  /\ liveCount = 1
  /\ Len(graphReqs) = 0
  /\ Len(polls) = MaxCalls
  /\ \A c \in DOMAIN polls : polls[c].pc = "returned"

\* C9: an action that runs a layout on the instance (a layout switch) makes
\* no other engine call: nothing is destroyed and nothing is constructed.
C9_LayoutSwitchNoRebuild ==
  Includes(engineOps, "layout") => engineOps = <<"layout">>

\* C10: a step that changes highlightedNodes and leaves the graph data alone
\* destroys no engine instance and constructs none.
C10_HighlightNoRebuild ==
  [][(highlightedNodes' # highlightedNodes /\ graphData' = graphData)
       => (~Includes(engineOps', "destroy") /\ ~Includes(engineOps', "construct"))]_vars

\* C11: a step that selects a file other than the one selected before leaves
\* no blast-radius result stored: the result of the previous file is cleared
\* at the selection, before the new fetch resolves.
C11_SelectionClearsResult ==
  [][(~IsNull(selectedFile') /\ selectedFile' # selectedFile)
       => IsNull(blastRadius')]_vars

\* C12: when the blast-radius fetch of the latest selection fails, blastRadius
\* becomes the degraded result built from the risk file known for the selected
\* path (its blast-radius count as total_affected, empty dependent lists, its
\* score and level) when there is one, and null when there is none; the
\* session error is left as it is.
C12_FailureDegrades ==
  [][\A i \in DOMAIN blastReqs :
       (BlastFail(i) /\ blastReqs[i].latest)
         => LET path == blastReqs[i].sel.full_path
                known == {k \in DOMAIN riskFiles : riskFiles[k].file_path = path}
            IN /\ error' = error
               /\ IF known = {} THEN blastRadius' = Null
                  ELSE \E k \in known : blastRadius' = Some(Degraded(riskFiles[k]))]_vars

\* C13: where the same file can be selected by a tap on its graph node and by
\* a click on its risk-list entry, the two requests have the same outcome:
\* the same blastRadius and highlightedNodes when the fetch resolves, the same
\* blastRadius when it rejects (highlightedNodes is left alone by both).
C13_SamePathSameOutcome ==
  (ViewerShown(graphData) /\ StatusTag(status) = "complete")
    => \A n \in DOMAIN Val(graphData).nodes : \A k \in DOMAIN riskFiles :
         Val(graphData).nodes[n].full_path = riskFiles[k].file_path
           => LET viaNode == NodeRequest(NodeData(Val(graphData).nodes[n]))
                  viaRisk == RiskRequest(riskFiles[k], FileData(riskFiles[k], graphData))
              IN /\ BlastResolved(viaNode) = BlastResolved(viaRisk)
                 /\ BlastRejected(viaNode) = BlastRejected(viaRisk)

\* C14: when a status fetch resolves with a complete payload, pollAnalysis
\* returns that payload in the same step, and a loop that has returned
\* issues no further fetch and does not sleep again.
C14_CompleteReturnsPayload ==
  /\ [][\A c \in DOMAIN polls : \A p \in Payloads(polls[c].id) :
          (FetchOk(c, p) /\ p.status = "complete")
            => (polls'[c].pc = "returned" /\ polls'[c].ret = Some(p))]_vars
  /\ [][\A c \in DOMAIN polls :
          polls[c].pc = "returned" => polls'[c] = polls[c]]_vars

\* C14 witness: a loop has returned the complete payload the session holds
C14_Witness ==
  \E c \in DOMAIN polls :
    /\ polls[c].pc = "returned"
    /\ ~IsNull(polls[c].ret)
    /\ Val(polls[c].ret).status = "complete"
    /\ polls[c].ret = status

\* C15: when a status fetch resolves with an error payload that carries a
\* message, pollAnalysis throws in the same step, error becomes that message
\* and loading false; a loop that has thrown issues no further fetch and does
\* not sleep; while the status is error no step changes the session.
C15_ErrorStatusFails ==
  /\ [][\A c \in DOMAIN polls : \A p \in Payloads(polls[c].id) :
          (FetchOk(c, p) /\ p.status = "error" /\ p.error # "")
            => (polls'[c].pc = "threw" /\ error' = p.error /\ ~loading')]_vars
  /\ [][\A c \in DOMAIN polls :
          polls[c].pc = "threw" => polls'[c] = polls[c]]_vars
  /\ [][StatusTag(status) = "error" => UNCHANGED hookVars]_vars

\* C15 witness: the session ended with the server's message as its error
C15_Witness ==
  /\ StatusTag(status) = "error"
  /\ Val(status).error # ""
  /\ error = Val(status).error
  /\ ~loading
  /\ \E c \in DOMAIN polls : polls[c].pc = "threw"

\* C16: a loop whose maxAttempts fetches all resolved with a pending or
\* processing payload throws, error becomes "Analysis timeout" and loading
\* false; the timeout is thrown only after exactly maxAttempts fetches; the
\* timeout message is held only with a non-terminal status, never with a
\* status of error, and differs from every message of a server failure.
C16_TimeoutAfterBudget ==
  /\ [][\A c \in DOMAIN polls :
          (SleepDone(c) /\ polls[c].fetches = MaxAttempts)
            => (polls'[c].pc = "threw" /\ error' = "Analysis timeout" /\ ~loading')]_vars
  /\ [][\A c \in DOMAIN polls :
          (polls'[c] # polls[c] /\ polls'[c].pc = "threw" /\ error' = "Analysis timeout")
            => polls[c].fetches = MaxAttempts]_vars
  /\ [](error = "Analysis timeout" => StatusTag(status) \in {"pending", "processing"})
  /\ [](\A p \in Payloads(1) : p.status = "error" => OrFailed(p.error) # "Analysis timeout")

\* C16 witness: the budget is used up on non-terminal payloads
C16_Witness ==
  /\ error = "Analysis timeout"
  /\ ~loading
  /\ StatusTag(status) \in {"pending", "processing"}
  /\ \E c \in DOMAIN polls : polls[c].pc = "threw"

\* C17: every status fetch that resolves hands its payload to onProgress in
\* the same step, before the loop returns or throws on it (status becomes
\* that payload, progress its progress, also for a complete or error
\* payload); a fetch that rejects, the submit response and the timer hand
\* nothing to onProgress (status and progress stay as they are).
C17_OnProgressPerPayload ==
  [][\A c \in DOMAIN polls :
       /\ \A p \in Payloads(polls[c].id) :
            FetchOk(c, p) => (status' = Some(p) /\ progress' = p.progress)
       /\ ((\E msg \in RejectMsgs : FetchFail(c, msg) \/ SubmitFail(c, msg))
             \/ SubmitOk(c) \/ SleepDone(c))
            => (status' = status /\ progress' = progress)]_vars

\* C17 witness: the final error payload was delivered before the loop threw
C17_Witness ==
  /\ StatusTag(status) = "error"
  /\ progress = Val(status).progress
  /\ \E c \in DOMAIN polls : polls[c].pc = "threw" /\ polls[c].id = Val(status).aid

\* C18: at most one status fetch is outstanding; a loop issues a fetch only
\* from its start or from a finished interval sleep, one fetch at a time; a
\* non-terminal response is followed by the interval sleep.
C18_PollInOrder ==
  /\ [](Cardinality({c \in DOMAIN polls : polls[c].pc = "fetch"}) <= 1)
  /\ [][\A c \in DOMAIN polls :
          (polls'[c] # polls[c] /\ polls'[c].pc = "fetch")
            => /\ polls[c].pc \in {"submit", "sleep"}
               /\ polls'[c].fetches = polls[c].fetches + 1]_vars
  /\ [][\A c \in DOMAIN polls : \A p \in Payloads(polls[c].id) :
          (FetchOk(c, p) /\ PollOutcome(p) = "continue")
            => polls'[c].pc = "sleep"]_vars

\* C18 witness: a loop issued its second fetch after a response and a sleep
\* while an earlier session of the page has settled
C18_Witness ==
  /\ Len(polls) = MaxCalls
  /\ \E c \in DOMAIN polls : polls[c].pc = "fetch" /\ polls[c].fetches = 2

\* C19: while the session holds an error, no analyze() call is made: a new
\* session starts only after reset() has cleared the error.
C19_ErrorNeedsReset ==
  [][error # NoError => Len(polls') = Len(polls)]_vars

\* C20: reset(), called in any session state, leaves the session idle in the
\* same step: loading false, error null, analysisId null, status null,
\* progress 0.
C20_ResetReturnsIdle ==
  [][HandleReset(FALSE) => Idle']_vars

\* C20 witness: the session is idle while one analyze() call is still
\* polling and another still waits for its submit response (reset() was
\* called while starting and mid-poll)
C20_Witness ==
  /\ Idle
  /\ \E c \in DOMAIN polls : Polling(c)
  /\ \E c \in DOMAIN polls : polls[c].pc = "submit"

\* C21: an analyze() call waits for its submit response before any status
\* fetch (no fetch issued, no id known while it waits); when the submit
\* succeeds, analysisId becomes the returned id, progress is 0, the session
\* is loading, and the first status fetch is issued in that step for that id.
C21_SubmitThenPoll ==
  /\ [](\A c \in DOMAIN polls :
          polls[c].pc = "submit" => (polls[c].fetches = 0 /\ polls[c].id = NoId))
  /\ [][\A c \in DOMAIN polls :
          SubmitOk(c)
            => /\ analysisId' = c
               /\ progress' = 0
               /\ loading'
               /\ polls'[c].pc = "fetch"
               /\ polls'[c].fetches = 1
               /\ polls'[c].id = analysisId']_vars

\* C21 witness: the first status fetch of the second session is outstanding
C21_Witness ==
  /\ Len(polls) = MaxCalls
  /\ polls[MaxCalls].pc = "fetch"
  /\ polls[MaxCalls].fetches = 1
  /\ analysisId = polls[MaxCalls].id
  /\ IsNull(status)

\* C22: when the submit request rejects with a message, error becomes that
\* message and loading false; the call has thrown without a status fetch and
\* without an id, analysisId and status are left as they were, and the call
\* never issues a fetch afterwards.
C22_SubmitFailure ==
  /\ [][\A c \in DOMAIN polls : \A msg \in RejectMsgs :
          (SubmitFail(c, msg) /\ msg # "")
            => /\ error' = msg
               /\ ~loading'
               /\ polls'[c].pc = "threw"
               /\ polls'[c].id = NoId
               /\ polls'[c].fetches = 0
               /\ analysisId' = analysisId
               /\ status' = status]_vars
  /\ [][\A c \in DOMAIN polls :
          (polls[c].pc = "threw" /\ polls[c].id = NoId)
            => polls'[c] = polls[c]]_vars

\* C22 witness: a submit failed, its message is the session error
C22_Witness ==
  /\ error = "Network Error"
  /\ ~loading
  /\ analysisId = NoId
  /\ IsNull(status)
  /\ \E c \in DOMAIN polls : polls[c].pc = "threw" /\ polls[c].id = NoId

\* C23: every status response that is applied sets progress to its progress
\* value; a session whose loop has returned (whatever non-terminal
\* responses came before the complete one, the 30 / 70 / complete sequence
\* among them) is complete with analysisId the submitted id, status the
\* returned payload with its summary, progress that payload's progress,
\* loading false and error null.
C23_CompletedSession ==
  /\ [][\A c \in DOMAIN polls : \A p \in Payloads(polls[c].id) :
          FetchOk(c, p)
            => /\ progress' = p.progress
               /\ p.status = "complete"
                    => /\ analysisId' = polls[c].id
                       /\ status' = Some(p)
                       /\ Val(status').summary
                       /\ ~loading'
                       /\ error' = NoError]_vars
  /\ [](\A c \in DOMAIN polls :
          (polls[c].pc = "returned" /\ analysisId = polls[c].id)
            => /\ status = polls[c].ret
               /\ Val(status).status = "complete"
               /\ progress = Val(status).progress
               /\ ~loading
               /\ error = NoError)

\* C23 witness: the loop of the current session has returned; the session
\* is complete with progress 100
C23_Witness ==
  /\ \E c \in DOMAIN polls : polls[c].pc = "returned" /\ polls[c].id = analysisId
  /\ StatusTag(status) = "complete"
  /\ progress = 100
  /\ error = NoError
  /\ ~loading

\* the graph and selection data of App
appData == <<graphData, riskFiles, selectedFile, blastRadius, highlightedNodes>>

\* C24: a graph, risk-file or blast-radius fetch that fails leaves loading,
\* error, analysisId, status and progress as they are (a complete session
\* stays complete), and leaves the other fetches alone: their outstanding
\* requests and the data they have stored are unchanged.
C24_SecondaryFailureIsLocal ==
  /\ [][\A i \in DOMAIN graphReqs :
          GraphFail(i)
            => UNCHANGED <<hookVars, riskReqs, blastReqs, riskFiles, selectedFile,
                           blastRadius, highlightedNodes>>]_vars
  /\ [][\A i \in DOMAIN riskReqs :
          RiskFail(i)
            => UNCHANGED <<hookVars, graphReqs, blastReqs, graphData, selectedFile,
                           blastRadius, highlightedNodes>>]_vars
  /\ [][\A i \in DOMAIN blastReqs :
          BlastFail(i)
            => UNCHANGED <<hookVars, graphReqs, riskReqs, graphData, riskFiles>>]_vars

\* C24 witness: the graph fetch of a complete session failed, the risk files
\* arrived all the same, and a blast-radius fetch has failed; the session is
\* complete without error
C24_Witness ==
  /\ StatusTag(status) = "complete"
  /\ error = NoError
  /\ ~loading
  /\ IsNull(graphData)
  /\ Len(graphReqs) = 0
  /\ Len(riskFiles) > 0
  /\ latestOutcome = "fail"

\* C25: no operation of the hook (analyze, reset, loadAnalysis, a submit or
\* status response, a rejection, the poll timer) changes graphData,
\* riskFiles, selectedFile, blastRadius or highlightedNodes.
C25_HookLeavesAppData ==
  [][(Analyze \/ Reset \/ (\E id \in 1..MaxCalls : LoadAnalysis(id)) \/ LoadStep \/ PollStep)
       => UNCHANGED appData]_vars

\* C25 witness: reset() was called on its own while graph data was stored
C25_Witness ==
  /\ Idle
  /\ ~IsNull(graphData)
  /\ Len(riskFiles) > 0

\* C26: graph and risk-file requests are issued only in the step in which
\* the session becomes complete, one of each, both for the session's id; a
\* step into complete always issues them; a graph response replaces the
\* stored snapshot by the response.
C26_LoadOnComplete ==
  /\ [][(Len(graphReqs') > Len(graphReqs) \/ Len(riskReqs') > Len(riskReqs))
          => /\ StatusTag(status') = "complete"
             /\ StatusTag(status) # "complete"
             /\ analysisId' # NoId
             /\ \E c \in DOMAIN polls' : polls'[c].pc = "returned" /\ polls'[c].id = analysisId'
             /\ graphReqs' = Append(graphReqs, analysisId')
             /\ riskReqs' = Append(riskReqs, analysisId')]_vars
  /\ [][(StatusTag(status') = "complete" /\ StatusTag(status) # "complete")
          => (Len(graphReqs') = Len(graphReqs) + 1 /\ Len(riskReqs') = Len(riskReqs) + 1)]_vars
  /\ [][\A i \in DOMAIN graphReqs : \A g \in Graphs :
          GraphOk(i, g) => graphData' = Some(g)]_vars

\* C26 witness: the second session has completed, both of its requests are
\* answered and its graph is stored
C26_Witness ==
  /\ Len(polls) = MaxCalls
  /\ polls[MaxCalls].pc = "returned"
  /\ analysisId = polls[MaxCalls].id
  /\ graphData = Some(GraphFull)
  /\ Len(graphReqs) = 0
  /\ Len(riskReqs) = 0

\* the highlight effect ran in the last action, on the instance cyRef holds
OverlayApplied == ~IsNull(cyRef) /\ Includes(engineOps, "classes")

\* C27: after the highlight effect ran with a non-empty highlightedNodes,
\* every node in the set carries exactly the class highlighted and every
\* other node exactly the class dimmed; after it ran with an empty
\* highlightedNodes no node and no edge carries a class.
C27_NodeOverlay ==
  OverlayApplied
    => LET inst == Val(cyRef)
       IN IF Len(highlightedNodes) > 0
            THEN \A n \in DOMAIN inst.ncls :
                   inst.ncls[n] = (IF Includes(highlightedNodes, n)
                                     THEN {"highlighted"} ELSE {"dimmed"})
            ELSE /\ \A n \in DOMAIN inst.ncls : inst.ncls[n] = {}
                 /\ \A i \in DOMAIN inst.ecls : inst.ecls[i] = {}

\* C27 witness: the overlay was applied with a set that holds one node of
\* the graph and not the other
C27_Witness ==
  /\ OverlayApplied
  /\ \E n \in DOMAIN Val(cyRef).ncls : Val(cyRef).ncls[n] = {"highlighted"}
  /\ \E n \in DOMAIN Val(cyRef).ncls : Val(cyRef).ncls[n] = {"dimmed"}

\* C28: after the highlight effect ran with a non-empty highlightedNodes, an
\* edge carries the class highlighted exactly when both its source and its
\* target are in the set, and the class dimmed otherwise.
C28_EdgeOverlay ==
  (OverlayApplied /\ Len(highlightedNodes) > 0)
    => LET inst == Val(cyRef)
       IN \A i \in DOMAIN inst.ecls :
            inst.ecls[i] =
              (IF /\ Includes(highlightedNodes, inst.edges[i].source)
                  /\ Includes(highlightedNodes, inst.edges[i].target)
                 THEN {"highlighted"} ELSE {"dimmed"})

\* graph data for which nothing is to be built: absent, without elements,
\* without nodes
NothingToBuild(gd) == IsNull(gd) \/ ~Val(gd).elements \/ Len(Val(gd).nodes) = 0

\* C29: for graph data that is absent, has no elements or has no nodes, the
\* build effect constructs nothing (it leaves the engine as it found it),
\* and while such data is stored no engine instance is alive, cyRef is empty
\* and the last action constructed none.
C29_EmptyGraphGuard ==
  /\ \A gd \in {Null} \cup {Some(g) : g \in Graphs} :
       NothingToBuild(gd) => BuildEffect(Engine, gd, layout) = Engine
  /\ NothingToBuild(graphData)
       => (liveCount = 0 /\ IsNull(cyRef) /\ ~Includes(engineOps, "construct"))

\* C29 witness: a graph without nodes replaced the graph of a mounted
\* viewer; the instance was destroyed and none constructed
C29_Witness ==
  /\ ~IsNull(graphData)
  /\ NothingToBuild(graphData)
  /\ engineOps = <<"destroy">>
  /\ liveCount = 0

\* C30: the cleanup is idempotent (on an engine without instance it changes
\* nothing, and run twice it does what it does run once); an action never
\* destroys more instances than were alive; a construct that follows a live
\* instance comes directly after that instance's destroy; when the viewer
\* is unmounted its instance is destroyed and none is left.
C30_Teardown ==
  /\ [](Cleanup(Cleanup(Engine)) = Cleanup(Engine))
  /\ [](IsNull(cyRef) => Cleanup(Engine) = Engine)
  /\ [][Count(engineOps', "destroy") <= liveCount]_vars
  /\ [][(~IsNull(cyRef) /\ Includes(engineOps', "construct"))
          => \E k \in DOMAIN engineOps' :
               /\ engineOps'[k] = "construct"
               /\ k > 1
               /\ engineOps'[k - 1] = "destroy"]_vars
  /\ [][(ViewerShown(graphData) /\ ~ViewerShown(graphData'))
          => /\ liveCount' = 0
             /\ IsNull(cyRef')
             /\ ~IsNull(cyRef) => Includes(engineOps', "destroy")]_vars

\* C30 witness: the viewer was unmounted by a reset and its instance
\* destroyed; a later cleanup finds no instance
C30_Witness ==
  /\ IsNull(graphData)
  /\ engineOps = <<"destroy">>
  /\ liveCount = 0
  /\ IsNull(cyRef)

\* C31: a step of a viewport control (zoom in, zoom out, fit, export)
\* constructs and destroys nothing, leaves graph data, highlight set,
\* selection, blast radius and layout choice as they are and changes nothing
\* of the instance but its zoom level, which stays within the configured
\* range; on an engine without instance each control changes nothing.
C31_ViewportControls ==
  /\ [][(HandleZoomIn \/ HandleZoomOut \/ HandleFit \/ HandleExportPNG)
          => /\ ~Includes(engineOps', "construct")
             /\ ~Includes(engineOps', "destroy")
             /\ UNCHANGED <<appData, layout, liveCount>>
             /\ ~IsNull(cyRef)
                  => /\ ~IsNull(cyRef')
                     /\ [Val(cyRef') EXCEPT !.zoom = Val(cyRef).zoom] = Val(cyRef)
                     /\ Val(cyRef').zoom \in MinZoomPct..MaxZoomPct]_vars
  /\ [](IsNull(cyRef)
          => /\ ZoomBy(Engine, 12) = Engine
             /\ ZoomBy(Engine, 8) = Engine
             /\ FitView(Engine) = Engine
             /\ ExportView(Engine) = Engine)

\* C31 witness: zooming in has reached the maximum zoom of the instance
C31_Witness ==
  /\ ~IsNull(cyRef)
  /\ engineOps = <<"zoom">>
  /\ Val(cyRef).zoom = MaxZoomPct

\* C32: when no blast-radius fetch is pending and an instance is alive, the
\* classes of its nodes and edges are those the highlight effect gives for
\* the current highlightedNodes (in particular a rebuilt instance is not
\* left without classes while highlightedNodes is non-empty).
C32_OverlayFollowsHighlight ==
  (Len(blastReqs) = 0 /\ Len(graphReqs) = 0 /\ Len(riskReqs) = 0 /\ ~IsNull(cyRef))
    => /\ Val(cyRef).ncls = NodeClasses(Val(cyRef), highlightedNodes)
       /\ Val(cyRef).ecls = EdgeClasses(Val(cyRef), highlightedNodes)

\* C33: when a poll loop returns or throws, the time since its first status
\* fetch was issued is at most intervalMs x maxAttempts.
C33_PollTimeBound ==
  [][\A c \in DOMAIN polls :
       (Polling(c) /\ polls'[c].pc \in {"returned", "threw"})
         => ElapsedAtLeast(polls[c]) <= IntervalMs * MaxAttempts]_vars

\* C34: a graph fetch is issued with a timeout strictly longer than the one
\* of a status poll, in the default configuration of the api client, and
\* (where the client reads its timeouts from the environment) the value of
\* one variable does not change the other timeout.
C34_GraphTimeoutLonger ==
  Len(graphReqs) > 0
    => /\ \A client \in ApiClients :
            LongerTimeout(RequestTimeoutMs(client, "graph", <<>>, <<>>),
                          RequestTimeoutMs(client, "status", <<>>, <<>>))
       /\ \A a \in EnvChoices : \A b \in EnvChoices : \A g \in EnvChoices :
            /\ RequestTimeoutMs("env", "graph", a, g) = RequestTimeoutMs("env", "graph", b, g)
            /\ RequestTimeoutMs("env", "status", g, a) = RequestTimeoutMs("env", "status", g, b)

\* C35: a risk-file response is stored as it came (same entries, same order,
\* repeated entries kept), and the list shown has one row per stored entry,
\* in the stored order, with the position of the entry as its rank.
C35_RiskListAsSent ==
  /\ [][\A i \in DOMAIN riskReqs : \A l \in RiskLists :
          RiskOk(i, l) => riskFiles' = l]_vars
  /\ [](/\ riskFiles \in RiskLists
        /\ DOMAIN RiskRows(riskFiles) = DOMAIN riskFiles
        /\ \A k \in DOMAIN riskFiles :
             /\ RiskRows(riskFiles)[k].rank = k
             /\ RiskRows(riskFiles)[k].file = riskFiles[k])

\* C35 witness: the response that is not in descending order is stored
C35_Witness ==
  /\ riskFiles = RiskListUnordered
  /\ StatusTag(status) = "complete"
  /\ activeTab = "risk"

\* C36: while the session status is not complete, the graph, the risk files,
\* the selected file, the blast radius and the highlighted nodes are all
\* empty, whatever earlier request resolves in the meantime.
C36_ClearedUntilComplete ==
  StatusTag(status) # "complete"
    => /\ IsNull(graphData)
       /\ riskFiles = <<>>
       /\ IsNull(selectedFile)
       /\ IsNull(blastRadius)
       /\ highlightedNodes = <<>>

\* C37: a status payload held by the hook was fetched for the session that
\* analysisId names.
C37_StatusOfCurrentSession ==
  ~IsNull(status) => Val(status).aid = analysisId

\* C38: whenever loading is false, the form or the reset button is shown.
C38_CanStartAgain == ~loading => (FormShown \/ ResetShown)

\* C39: the step by which an analyze() call settles (returns or throws) leaves
\* loading false, and when every request is answered and every timer fires,
\* every analyze() call that was made eventually has settled.
C39_AnalyzeSettles ==
  /\ [][\A c \in DOMAIN polls :
          (~HasSettled(c) /\ polls'[c].pc \in {"returned", "threw"}) => ~loading']_vars
  /\ \A c \in 1..MaxSessions : (c \in DOMAIN polls) ~> HasSettled(c)

\* C39 witness: a call threw on a rejected status fetch after an update was
\* applied; loading is false and the error message is the one of the rejection
C39_Witness ==
  /\ \E c \in DOMAIN polls : polls[c].pc = "threw"
  /\ error = "Network Error"
  /\ StatusTag(status) = "processing"
  /\ ~loading

=============================================================================
